---- MODULE Spec2Model ----
(***************************************************************************)
(* treeproject: path_tree (tree.py) and path_content (content.py) run on a *)
(* filesystem snapshot.  The snapshot is built by the operations the test  *)
(* suites use (mkdir, write_text, symlink_to, chmod(0)); then one of the   *)
(* two entry points is called on it.                                        *)
(*                                                                         *)
(* A path is the sequence of its components below the top directory of the *)
(* snapshot (<<>>).  Strings are sequences of tokens: a name, a connector, *)
(* a delimiter or one character.                                            *)
(***************************************************************************)
EXTENDS Integers, Sequences, FiniteSets, TLC

VARIABLES
    fs,               \* the snapshot: every existing real path and its entry
    pc,               \* "setup", "called" (arguments bound), "done"
    op,               \* the entry point called
    arg,              \* the root argument as given
    follow_symlinks,
    rejected,         \* the paths for which include() is False
    skip_binary,
    errors,
    root,             \* root.resolve()
    lines,            \* path_tree: the lines collected
    blocks,           \* path_content: the blocks collected
    listed,           \* the directories a listing was asked of, in order
    outcome,          \* "returned", or the exception the call raised
    result            \* the string returned

vars == <<fs, pc, op, arg, follow_symlinks, rejected, skip_binary, errors,
          root, lines, blocks, listed, outcome, result>>

-----------------------------------------------------------------------------
(* Bounds of the snapshot.                                                  *)

\* deepest entry below the top directory
MaxDepth == 2

\* entries of the snapshot, the top directory not counted
MaxEntries == 3

\* paths the include predicate rejects (besides the reject-everything predicate)
MaxRejected == 1

\* entries that are not a plain directory or a readable text file: symbolic
\* links, entries closed by chmod(0), files that are not text
MaxOdd == 1

\* symbolic links the kernel follows in one path resolution before ELOOP
\* (40 on Linux); more than MaxOdd, so that only a cyclic path exceeds it
SymLoopMax == 2

\* "A" and "a" differ by case only; "B" sorts before "a" unless case-folded
Names == {"A", "a", "B"}

PlainText == <<104, 105>>

\* the target of a dangling link: a path that never exists
Missing == <<"gone">>

\* the bytes of the line "===== END FILE ====="
EndFileBytes ==
    << 61, 61, 61, 61, 61, 32, 69, 78, 68, 32, 70, 73, 76, 69, 32, 61, 61, 61, 61, 61 >>

\* ten bytes of which exactly three lie outside the text set
ThreeInTen == << 1, 1, 1, 104, 104, 104, 104, 104, 104, 104 >>

\* file contents, as bytes: "hi", a NUL byte, 0xC8 "hi!!" (one byte in five
\* outside the text set, and not UTF-8), the empty file, "h\r\ni", "h\n",
\* a line equal to the block terminator, 0x01 "hi" (one byte in three outside
\* the text set) and ThreeInTen
Contents ==
    { PlainText, <<0>>, <<200, 104, 105, 33, 33>>, <<>>, <<104, 13, 10, 105>>,
      <<104, 10>>, EndFileBytes, <<1, 104, 105>>, ThreeInTen }

-----------------------------------------------------------------------------
(* Sequences.                                                               *)

Range(s) == { s[i] : i \in DOMAIN s }

IsPrefix(p, q) == Len(p) <= Len(q) /\ SubSeq(q, 1, Len(p)) = p

Parent(p) == SubSeq(p, 1, Len(p) - 1)

Last(p) == p[Len(p)]

-----------------------------------------------------------------------------
(* The filesystem.  fs maps every existing real path to its entry.          *)

Dir == [kind |-> "dir", mode |-> TRUE, data |-> <<>>, target |-> <<>>]

File(data) == [kind |-> "file", mode |-> TRUE, data |-> data, target |-> <<>>]

Link(target) == [kind |-> "link", mode |-> TRUE, data |-> <<>>, target |-> target]

Entries == DOMAIN fs \ { <<>> }

RealChildren(d) == { p \in DOMAIN fs : Len(p) = Len(d) + 1 /\ IsPrefix(d, p) }

\* Path resolution by the kernel: cur is resolved (no link in it), rest is
\* still to be walked, budget is the number of links that may still be
\* followed.  lstat does not follow a link in the last component.
RECURSIVE Walk(_, _, _, _)
Walk(cur, rest, budget, follow_last) ==
    IF rest = <<>> THEN [ok |-> TRUE, real |-> cur, err |-> ""]
    ELSE IF cur \notin DOMAIN fs THEN [ok |-> FALSE, real |-> cur \o rest, err |-> "ENOENT"]
    ELSE IF fs[cur].kind # "dir" THEN [ok |-> FALSE, real |-> cur \o rest, err |-> "ENOTDIR"]
    ELSE LET nxt == Append(cur, Head(rest)) IN
         IF nxt \notin DOMAIN fs THEN [ok |-> FALSE, real |-> cur \o rest, err |-> "ENOENT"]
         ELSE IF fs[nxt].kind = "link" /\ (Tail(rest) # <<>> \/ follow_last)
              THEN IF budget = 0 THEN [ok |-> FALSE, real |-> cur \o rest, err |-> "ELOOP"]
                   ELSE Walk(<<>>, fs[nxt].target \o Tail(rest), budget - 1, follow_last)
              ELSE Walk(nxt, Tail(rest), budget, follow_last)

\* a status call that follows one link more than the limit of the kernel
StatDeeper(p) == Walk(<<>>, p, SymLoopMax + 1, TRUE)

Stat(p) == Walk(<<>>, p, SymLoopMax, TRUE)

LStat(p) == Walk(<<>>, p, SymLoopMax, FALSE)

\* Path.resolve(), not strict: what could not be resolved is kept as it is
resolve(p) == Stat(p).real

\* tree.is_dir: Path.is_dir(), False when the status cannot be determined
is_dir(p) == Stat(p).ok /\ fs[Stat(p).real].kind = "dir"

is_file(p) == Stat(p).ok /\ fs[Stat(p).real].kind = "file"

is_symlink(p) == LStat(p).ok /\ fs[LStat(p).real].kind = "link"

\* Path.iterdir() / os.scandir(): the names in directory d, or an OSError
CanList(d) == is_dir(d) /\ fs[resolve(d)].mode

ChildNames(d) == IF CanList(d) THEN { Last(p) : p \in RealChildren(resolve(d)) } ELSE {}

\* the listing of d when the filesystem enumerates names in the order scan
Listing(d, scan) == SelectSeq(scan, LAMBDA n : n \in ChildNames(d))

\* every path a walk from r can come to see
RECURSIVE Reach(_)
Reach(p) == {p} \cup UNION { Reach(Append(p, n)) : n \in ChildNames(p) }

-----------------------------------------------------------------------------
(* The snapshot is built as the tests build theirs.                         *)

Odd == { q \in Entries : \/ fs[q].kind = "link"
                         \/ ~fs[q].mode
                         \/ (fs[q].kind = "file" /\ fs[q].data # PlainText) }

CanCreate(p) ==
    /\ Cardinality(Entries) < MaxEntries
    /\ Len(p) <= MaxDepth
    /\ p \notin DOMAIN fs
    /\ Parent(p) \in DOMAIN fs
    /\ fs[Parent(p)].kind = "dir"

Frozen == <<pc, op, arg, follow_symlinks, rejected, skip_binary, errors,
            root, lines, blocks, listed, outcome, result>>

Mkdir(p) ==
    /\ pc = "setup"
    /\ CanCreate(p)
    /\ fs' = [q \in DOMAIN fs \cup {p} |-> IF q = p THEN Dir ELSE fs[q]]
    /\ UNCHANGED Frozen

WriteText(p, data) ==
    /\ pc = "setup"
    /\ CanCreate(p)
    /\ data # PlainText => Cardinality(Odd) < MaxOdd
    /\ fs' = [q \in DOMAIN fs \cup {p} |-> IF q = p THEN File(data) ELSE fs[q]]
    /\ UNCHANGED Frozen

\* no link leads below a directory that chmod(0) has closed: such a path can
\* be neither listed nor examined, and is left out of the snapshots
Searchable(t) == \A i \in 0 .. Len(t) - 1 :
                    SubSeq(t, 1, i) \in DOMAIN fs => fs[SubSeq(t, 1, i)].mode

SymlinkTo(p, target) ==
    /\ pc = "setup"
    /\ CanCreate(p)
    /\ Cardinality(Odd) < MaxOdd
    /\ Searchable(target)
    /\ fs' = [q \in DOMAIN fs \cup {p} |-> IF q = p THEN Link(target) ELSE fs[q]]
    /\ UNCHANGED Frozen

Chmod0(p) ==
    /\ pc = "setup"
    /\ p \in Entries
    /\ fs[p].kind \in {"dir", "file"}
    /\ fs[p].mode
    /\ Cardinality(Odd) < MaxOdd
    /\ \A q \in Entries : fs[q].kind = "link" =>
          ~(IsPrefix(p, fs[q].target) /\ fs[q].target # p)
    /\ fs' = [fs EXCEPT ![p].mode = FALSE]
    /\ UNCHANGED Frozen

-----------------------------------------------------------------------------
(* Ordering of siblings.                                                    *)

\* str.casefold() on the names of the snapshot
casefold(n) == IF n = "A" THEN "a" ELSE IF n = "B" THEN "b" ELSE n

\* the code point of a one-character string: Python compares strings by it
Ord(c) == CASE c = "A" -> 65 [] c = "B" -> 66 [] c = "a" -> 97 [] c = "b" -> 98

\* comparison of two sort keys, compared from the left as Python compares
\* tuples; a bool is 0 or 1, a one-character string is its code point
RECURSIVE KeyLE(_, _)
KeyLE(k1, k2) ==
    IF k1 = <<>> THEN TRUE
    ELSE Head(k1) < Head(k2) \/ (Head(k1) = Head(k2) /\ KeyLE(Tail(k1), Tail(k2)))

\* list.sort / sorted: stable, an item stays behind the equal items before it
RECURSIVE InsertAfter(_, _)
InsertAfter(x, s) ==
    IF s = <<>> THEN <<x>>
    ELSE IF KeyLE(Head(s).key, x.key) THEN <<Head(s)>> \o InsertAfter(x, Tail(s))
    ELSE <<x>> \o s

RECURSIVE StableSort(_)
StableSort(s) ==
    IF s = <<>> THEN <<>>
    ELSE InsertAfter(Last(s), StableSort(SubSeq(s, 1, Len(s) - 1)))

Values(s) == [i \in DOMAIN s |-> s[i].val]

\* the orders in which the filesystem enumerates names: by code point, and
\* the reverse (a stable sort by key depends on the order of "A" and "a" only)
ScanOrders == { <<"A", "B", "a">>, <<"a", "B", "A">> }

-----------------------------------------------------------------------------
(* path_tree                                                                *)

\* a predicate that is not consulted
include_all(p) == TRUE

\* include, were the pattern matched against the name alone
include_by_name(p) == \A q \in rejected : q = <<>> \/ p = <<>> \/ Last(q) # Last(p)

include(p) == p \notin rejected

\* str(root) and Path.as_posix()
RECURSIVE Slashed(_)
Slashed(p) == IF p = <<>> THEN <<>> ELSE <<"/", Head(p)>> \o Slashed(Tail(p))

PathStr(p) == IF p = <<>> THEN <<"/">> ELSE Slashed(p)

RECURSIVE Join(_, _)
Join(sep, ss) ==
    IF ss = <<>> THEN <<>>
    ELSE IF Len(ss) = 1 THEN ss[1]
    ELSE ss[1] \o sep \o Join(sep, Tail(ss))

\* the connectors of tree.py, its box-drawing characters written in ASCII
ElbowBranch == "+-- "

TeeBranch == "|-- "

BlankExt == "    "

BarExt == "|   "

\* key=lambda p: (not is_dir(p), p.name.casefold())
\* the key with the names compared as they are written
TreeKeyCased(p) == << IF is_dir(p) THEN 0 ELSE 1, Ord(Last(p)) >>

TreeKey(p) == << IF is_dir(p) THEN 0 ELSE 1, Ord(casefold(Last(p))) >>

iter_children(d, scan) ==
    LET names == Listing(d, scan)
    IN Values(StableSort([i \in DOMAIN names |->
           [key |-> TreeKey(Append(d, names[i])), val |-> Append(d, names[i])]]))

\* the connector of a child's line
branch(last) == IF last THEN ElbowBranch ELSE TeeBranch

\* the columns below a child, drawn as below a child with siblings after it
ext_bar(last) == BarExt

\* the columns added to the prefix below a child
ext(last) == IF last THEN BlankExt ELSE BarExt

\* whether rec goes down into a child, with the flag left out
descend_any(child) == is_dir(child)

\* whether rec goes down into a child
descend(child) == is_dir(child) /\ (follow_symlinks \/ ~is_symlink(child))

\* rec(d, prefix): the lines it appends and the directories it lists.
\* RecLoop is its loop from the i-th child on.
RECURSIVE RecLoop(_, _, _, _)
\* what rec(d, ...) leaves when its loop leaves below: d was listed first
Listed(d, below) == [lines |-> below.lines, listed |-> <<d>> \o below.listed]

rec(d, prefix, scan) ==
    Listed(d, RecLoop(SelectSeq(iter_children(d, scan), include), 1, prefix, scan))

RecLoop(children, i, prefix, scan) ==
    IF i > Len(children) THEN [lines |-> <<>>, listed |-> <<>>]
    ELSE LET child == children[i]
             last == i = Len(children)
             sub == IF descend(child)
                    THEN rec(child, Append(prefix, ext(last)), scan)
                    ELSE [lines |-> <<>>, listed |-> <<>>]
             rest == RecLoop(children, i + 1, prefix, scan)
         IN [lines |-> << prefix \o <<branch(last), Last(child)>> >> \o sub.lines \o rest.lines,
             listed |-> sub.listed \o rest.listed]

\* the paths a predicate is drawn over, and the predicates: those that reject
\* at most MaxRejected paths, and the one that rejects every path below r
RejectSets(r) ==
    { S \in SUBSET Reach(r) : Cardinality(S) <= MaxRejected } \cup { Reach(r) \ {r} }

RootArgs == { <<>>, <<"a">> }

CallPathTree(r, f, rej) ==
    /\ pc = "setup"
    /\ pc' = "called"
    /\ op' = "path_tree"
    /\ arg' = r
    /\ follow_symlinks' = f
    /\ rejected' = rej
    /\ UNCHANGED <<fs, skip_binary, errors, root, lines, blocks, listed, outcome, result>>

\* return "\n".join(lines), for the resolved root r and what rec(r, "") left
ReturnTree(r, walk) ==
    /\ root' = r
    /\ lines' = << PathStr(r) >> \o walk.lines
    /\ listed' = walk.listed
    /\ result' = Join(<<"\n">>, << PathStr(r) >> \o walk.lines)
    /\ outcome' = "returned"

\* the body of path_tree, the listings coming in the order scan
PathTree(scan) ==
    /\ pc = "called"
    /\ op = "path_tree"
    /\ ReturnTree(resolve(arg), rec(resolve(arg), <<>>, scan))
    /\ pc' = "done"
    /\ UNCHANGED <<fs, op, arg, follow_symlinks, rejected, skip_binary, errors, blocks>>

-----------------------------------------------------------------------------
(* path_content                                                             *)

sample_size == 8192

Min(x, y) == IF x <= y THEN x ELSE y

Max(x, y) == IF x >= y THEN x ELSE y

\* bytearray({7, 8, 9, 10, 12, 13, 27} | set(range(32, 127)))
text_bytes == {7, 8, 9, 10, 12, 13, 27} \cup (32 .. 126)

Raise(e) == [exc |-> e, val |-> FALSE]

Return(v) == [exc |-> "", val |-> v]

\* a test that also takes a ratio of exactly 0.30 for binary
at_threshold(non_text, n) == 10 * non_text >= 3 * Max(n, 1)

\* non_text / max(len(sample), 1) > 0.30
over_threshold(non_text, n) == 10 * non_text > 3 * Max(n, 1)

\* is_binary_file on an existing regular file, entry: open, read a sample, test
binary_sample(entry) ==
    IF ~entry.mode THEN Raise("PermissionError")
    ELSE LET sample == SubSeq(entry.data, 1, Min(sample_size, Len(entry.data)))
             non_text == Cardinality({ i \in DOMAIN sample : sample[i] \notin text_bytes })
         IN IF 0 \in Range(sample) THEN Return(TRUE)
            ELSE Return(over_threshold(non_text, Len(sample)))

\* is_binary_file(path): the value returned, or the exception raised
is_binary_file(path) ==
    IF ~is_file(path) THEN Raise("ValueError") ELSE binary_sample(fs[resolve(path)])

\* a character, written as a token
Chr(c) == CASE c = 0 -> "NUL" [] c = 1 -> "SOH" [] c = 10 -> "\n" [] c = 13 -> "\r"
            [] c = 32 -> " " [] c = 33 -> "!" [] c = 61 -> "=" [] c = 68 -> "D"
            [] c = 69 -> "E" [] c = 70 -> "F" [] c = 73 -> "I" [] c = 76 -> "L"
            [] c = 78 -> "N" [] c = 104 -> "h" [] c = 105 -> "i" [] c = 233 -> "e-acute"

\* bytes.decode("utf-8"), for the one- and two-byte encodings: the code
\* points, or <<-1>> for a UnicodeDecodeError
RECURSIVE utf8(_)
utf8(b) ==
    IF b = <<>> THEN <<>>
    ELSE IF b[1] < 128
         THEN LET t == utf8(Tail(b)) IN IF t = <<-1>> THEN t ELSE <<b[1]>> \o t
    ELSE IF b[1] \in 194 .. 223 /\ Len(b) >= 2 /\ b[2] \in 128 .. 191
         THEN LET t == utf8(SubSeq(b, 3, Len(b)))
              IN IF t = <<-1>> THEN t ELSE << (b[1] - 192) * 64 + (b[2] - 128) >> \o t
    ELSE <<-1>>

\* reading in text mode: "\r\n" and "\r" become "\n"
RECURSIVE newlines(_)
newlines(c) ==
    IF c = <<>> THEN <<>>
    ELSE IF c[1] = 13 /\ Len(c) >= 2 /\ c[2] = 10 THEN <<10>> \o newlines(SubSeq(c, 3, Len(c)))
    ELSE IF c[1] = 13 THEN <<10>> \o newlines(Tail(c))
    ELSE <<c[1]>> \o newlines(Tail(c))

\* Path.read_text(encoding="utf-8") on readable bytes
read_text(data) ==
    LET text == newlines(utf8(data)) IN [i \in DOMAIN text |-> Chr(text[i])]

\* PurePath.as_posix() of a relative path
as_posix(rel) == IF rel = <<>> THEN <<".">> ELSE Tail(Slashed(rel))

FileHeader == "===== FILE: "

HeaderEnd == " ====="

EndFile == "===== END FILE ====="

\* file_to_text on a regular file whose resolved path is real: read the text,
\* make the header, format the block
text_block(real, rootp) ==
    IF ~fs[real].mode THEN Raise("PermissionError")
    ELSE IF utf8(fs[real].data) = <<-1>> THEN Raise("UnicodeDecodeError")
    ELSE IF ~IsPrefix(rootp, real) THEN Raise("ValueError")
    ELSE Return(<<FileHeader>> \o as_posix(SubSeq(real, Len(rootp) + 1, Len(real)))
                \o <<HeaderEnd, "\n">> \o read_text(fs[real].data) \o <<"\n", EndFile>>)

\* file_to_text(path, root=rootp): the block, or the exception raised
file_to_text(path, rootp) ==
    IF ~is_file(path) THEN Raise("ValueError") ELSE text_block(resolve(path), rootp)

should_follow(p) == follow_symlinks \/ ~is_symlink(p)

\* safe_add_file, given what is_binary_file (bin) and file_to_text (text) do
add_block(blks, bin, text) ==
    IF bin.exc # "" THEN Raise(bin.exc)
    ELSE IF bin.val THEN Return(blks)
    ELSE IF text.exc \in {"PermissionError", "UnicodeDecodeError"}
         THEN IF errors = "skip" THEN Return(blks) ELSE Raise(text.exc)
    ELSE IF text.exc # "" THEN Raise(text.exc)
    ELSE Return(Append(blks, text.val))

\* safe_add_file(p): blocks afterwards, or the exception that leaves it
safe_add_file(p, blks, rootp) ==
    add_block(blks, IF skip_binary THEN is_binary_file(p) ELSE Return(FALSE),
              file_to_text(p, rootp))

\* os.DirEntry.is_dir(follow_symlinks=follow_symlinks), False on OSError
entry_is_dir(p) ==
    IF follow_symlinks THEN is_dir(p) ELSE LStat(p).ok /\ fs[LStat(p).real].kind = "dir"

\* sorted(names, key=str.casefold)
sorted_casefold(names) ==
    Values(StableSort([i \in DOMAIN names |->
        [key |-> << Ord(casefold(names[i])) >>, val |-> names[i]]]))

\* the loop over the files of one directory, from the i-th name on; AddRest
\* is the loop once safe_add_file has left r for the i-th name
RECURSIVE AddFiles(_, _, _, _, _)
AddRest(dirpath, names, i, r, rootp) ==
    IF r.exc # "" THEN r ELSE AddFiles(dirpath, names, i + 1, r.val, rootp)

AddFiles(dirpath, names, i, blks, rootp) ==
    IF i > Len(names) THEN Return(blks)
    ELSE LET p == Append(dirpath, names[i]) IN
         IF ~include(p) \/ ~should_follow(p)
         THEN AddFiles(dirpath, names, i + 1, blks, rootp)
         ELSE AddRest(dirpath, names, i, safe_add_file(p, blks, rootp), rootp)

\* Path.walk's split of the names listed in path into dirnames and filenames
walk_entries(path, names) ==
    [dirnames |-> SelectSeq(names, LAMBDA n : entry_is_dir(Append(path, n))),
     filenames |-> SelectSeq(names, LAMBDA n : ~entry_is_dir(Append(path, n)))]

\* a walk that prunes nothing the predicate rejects
keep_dir_unpruned(p) == should_follow(p)

\* the test that keeps a name in dirnames
keep_dir(p) == include(p) /\ should_follow(p)

\* the body of the for loop of path_content for one (dirpath, dirnames,
\* filenames): dirnames as it leaves them, and the blocks or the exception
LoopBody(dirpath, entries, blks, rootp) ==
    [dirnames |-> sorted_casefold(SelectSeq(entries.dirnames, LAMBDA name :
                      keep_dir(Append(dirpath, name)))),
     files |-> AddFiles(dirpath, sorted_casefold(entries.filenames), 1, blks, rootp)]

Reverse(s) == [i \in DOMAIN s |-> s[Len(s) + 1 - i]]

\* a walk that hands the error of a failed listing to its caller
on_error_raise(e) == e

\* what Path.walk does with the error of a failed listing when it is given
\* no on_error: it drops the error and goes on
on_error(e) == ""

\* Path.walk(follow_symlinks=follow_symlinks), top down, driving the loop:
\* todo is its stack of directories, acc what the loop has collected
RECURSIVE WalkLoop(_, _, _, _)
\* the walk after the loop body has run for path and left body
WalkOn(path, rest, seen, body, scan, rootp) ==
    IF body.files.exc # ""
    THEN [seen EXCEPT !.exc = body.files.exc]
    ELSE WalkLoop(rest \o Reverse([i \in DOMAIN body.dirnames |->
                                     Append(path, body.dirnames[i])]),
                  [seen EXCEPT !.blocks = body.files.val], scan, rootp)

WalkLoop(todo, acc, scan, rootp) ==
    IF todo = <<>> THEN acc
    ELSE LET path == Last(todo)
             rest == SubSeq(todo, 1, Len(todo) - 1)
             seen == [acc EXCEPT !.listed = Append(acc.listed, path)]
         IN IF ~CanList(path)
            THEN IF on_error("OSError") # ""
                 THEN [seen EXCEPT !.exc = on_error("OSError")]
                 ELSE WalkLoop(rest, seen, scan, rootp)
            ELSE WalkOn(path, rest, seen,
                        LoopBody(path, walk_entries(path, Listing(path, scan)),
                                 acc.blocks, rootp),
                        scan, rootp)

CallPathContent(r, f, rej, sb, err) ==
    /\ pc = "setup"
    /\ pc' = "called"
    /\ op' = "path_content"
    /\ arg' = r
    /\ follow_symlinks' = f
    /\ rejected' = rej
    /\ skip_binary' = sb
    /\ errors' = err
    /\ UNCHANGED <<fs, root, lines, blocks, listed, outcome, result>>

\* the branch of a root that is a file: what safe_add_file(root) left
root_file(single) ==
    [exc |-> single.exc, listed |-> <<>>,
     blocks |-> IF single.exc = "" THEN single.val ELSE <<>>]

\* path_content after root.resolve(): what it has collected when it ends
collect(r, scan) ==
    IF is_file(r)
    THEN root_file(IF include(r) /\ should_follow(r)
                   THEN safe_add_file(r, <<>>, r) ELSE Return(<<>>))
    ELSE IF ~is_dir(r)
    THEN [exc |-> "ValueError", listed |-> <<>>, blocks |-> <<>>]
    ELSE WalkLoop(<<r>>, [exc |-> "", listed |-> <<>>, blocks |-> <<>>], scan, r)

\* return "\n\n".join(blocks), or the exception that leaves path_content
ReturnContent(r, acc) ==
    /\ root' = r
    /\ blocks' = acc.blocks
    /\ listed' = acc.listed
    /\ outcome' = IF acc.exc = "" THEN "returned" ELSE acc.exc
    /\ result' = IF acc.exc = "" THEN Join(<<"\n", "\n">>, acc.blocks) ELSE <<>>

\* the body of path_content, the listings coming in the order scan
PathContent(scan) ==
    /\ pc = "called"
    /\ op = "path_content"
    /\ ReturnContent(resolve(arg), collect(resolve(arg), scan))
    /\ pc' = "done"
    /\ UNCHANGED <<fs, op, arg, follow_symlinks, rejected, skip_binary, errors, lines>>

-----------------------------------------------------------------------------

Init ==
    /\ fs = [q \in { <<>> } |-> Dir]
    /\ pc = "setup"
    /\ op = "none"
    /\ arg = <<>>
    /\ follow_symlinks = FALSE
    /\ rejected = {}
    /\ skip_binary = TRUE
    /\ errors = "raise"
    /\ root = <<>>
    /\ lines = <<>>
    /\ blocks = <<>>
    /\ listed = <<>>
    /\ outcome = "none"
    /\ result = <<>>

\* the call's arguments are drawn when the snapshot is complete
Next ==
    \/ \E n \in Names, d \in DOMAIN fs : Mkdir(Append(d, n))
    \/ \E n \in Names, d \in DOMAIN fs, data \in Contents : WriteText(Append(d, n), data)
    \/ \E n \in Names, d \in DOMAIN fs, t \in DOMAIN fs \cup {Missing} :
          SymlinkTo(Append(d, n), t)
    \/ \E p \in DOMAIN fs : Chmod0(p)
    \/ /\ pc = "setup"
       /\ \E r \in RootArgs, f \in BOOLEAN : \E rej \in RejectSets(resolve(r)) :
             CallPathTree(r, f, rej)
    \/ \E scan \in ScanOrders : PathTree(scan)
    \/ /\ pc = "setup"
       /\ \E r \in RootArgs, f \in BOOLEAN, sb \in BOOLEAN, err \in {"raise", "skip"} :
             \E rej \in RejectSets(resolve(r)) : CallPathContent(r, f, rej, sb, err)
    \/ \E scan \in ScanOrders : PathContent(scan)

Spec == Init /\ [][Next]_vars

\* a call that has been made runs to its end: the bodies of path_tree and of
\* path_content are straight-line code in the caller's thread.  From a state
\* with pc = "called" the only steps of Next are PathTree and PathContent,
\* which pc and op alone guard, so this is weak fairness of those two actions
FairSpec == Spec /\ WF_pc(pc = "called" /\ pc' = "done")

-----------------------------------------------------------------------------
(* Reading the output.                                                      *)

Done == pc = "done"

TreeDone == pc = "done" /\ op = "path_tree"

ContentDone == pc = "done" /\ op = "path_content"

\* the depth a line is drawn at: the root line -1, a child of the root 0
DepthOf(i) == IF i = 1 THEN -1 ELSE Len(lines[i]) - 2

NameOf(i) == lines[i][Len(lines[i])]

\* the line a line hangs from: the nearest line above it drawn one level up
ParentLine(i) ==
    CHOOSE j \in 1 .. i - 1 :
        /\ DepthOf(j) = DepthOf(i) - 1
        /\ \A k \in j + 1 .. i - 1 : DepthOf(k) # DepthOf(i) - 1

\* the path a line of the tree stands for
RECURSIVE LinePath(_)
LinePath(i) == IF i = 1 THEN root ELSE Append(LinePath(ParentLine(i)), NameOf(i))

Shown == { LinePath(i) : i \in 2 .. Len(lines) }

\* the lines beneath line i, without the columns of i and of its ancestors
BeneathLast(i) ==
    CHOOSE j \in i .. Len(lines) :
        /\ \A k \in i + 1 .. j : DepthOf(k) > DepthOf(i)
        /\ (j < Len(lines) => DepthOf(j + 1) <= DepthOf(i))

Beneath(i) ==
    [k \in 1 .. BeneathLast(i) - i |->
        SubSeq(lines[i + k], DepthOf(i) + 2, Len(lines[i + k]))]

\* a block's header, as the path it names, and a block's body
HeaderLen(b) == CHOOSE k \in 2 .. Len(b) : b[k] = HeaderEnd /\ \A j \in 2 .. k - 1 : b[j] # HeaderEnd

HeaderOf(b) == SelectSeq(SubSeq(b, 2, HeaderLen(b) - 1), LAMBDA t : t \notin {"/", "."})

BodyOf(b) == SubSeq(b, HeaderLen(b) + 2, Len(b) - 2)

Headers == { root \o HeaderOf(blocks[i]) : i \in DOMAIN blocks }

\* the paths below the root that the predicate and the symlink flag let a
\* walk come to: every step is a name of a listing that the predicate
\* accepts, and hangs from the root or from a directory that is descended
Descended(p) == is_dir(p) /\ (follow_symlinks \/ ~is_symlink(p))

Kept(p) ==
    \A k \in Len(root) + 1 .. Len(p) :
        /\ p[k] \in ChildNames(SubSeq(p, 1, k - 1))
        /\ include(SubSeq(p, 1, k))
        /\ k > Len(root) + 1 => Descended(SubSeq(p, 1, k - 1))

Below(r) == Reach(r) \ {r}

PlainFile(p) ==
    /\ is_file(p)
    /\ fs[resolve(p)].mode
    /\ fs[resolve(p)].data = PlainText

NoLinks == \A q \in Entries : fs[q].kind # "link"

-----------------------------------------------------------------------------
(* Claims.                                                                  *)

\* C1: pruning is total.  When include(d) is False for a directory d below
\* the root, neither d nor a path with the prefix d is a line of path_tree's
\* output or the header of a block of path_content's output, while the
\* entries the walk keeps outside of d still appear.
C1_PruningIsTotal ==
    (Done /\ outcome = "returned") =>
        \A d \in rejected :
            (d # root /\ IsPrefix(root, d) /\ is_dir(d)) =>
                /\ op = "path_tree" =>
                      /\ \A p \in Shown : ~IsPrefix(d, p)
                      /\ \A p \in Below(root) : Kept(p) => p \in Shown
                /\ op = "path_content" =>
                      \A h \in Headers : ~IsPrefix(d, h)

\* C2: in path_tree's output, among the children of one directory, every
\* directory (a symlink to a directory included) comes before every
\* non-directory, and within each group the case-folded names do not decrease.
C2_SiblingOrder ==
    TreeDone =>
        \A i, j \in 2 .. Len(lines) :
            (i < j /\ ParentLine(i) = ParentLine(j)) =>
                /\ is_dir(LinePath(j)) => is_dir(LinePath(i))
                /\ (is_dir(LinePath(i)) <=> is_dir(LinePath(j))) =>
                       Ord(casefold(NameOf(i))) <= Ord(casefold(NameOf(j)))

\* a symlink to a directory is listed before two files whose names are in
\* case-folded order against their code points
C2_Witness ==
    /\ TreeDone
    /\ \E i, j, k \in 2 .. Len(lines) :
          /\ i < j /\ j < k
          /\ ParentLine(i) = ParentLine(j) /\ ParentLine(j) = ParentLine(k)
          /\ is_symlink(LinePath(i)) /\ is_dir(LinePath(i))
          /\ ~is_dir(LinePath(j)) /\ NameOf(j) = "a"
          /\ ~is_dir(LinePath(k)) /\ NameOf(k) = "B"

\* C3: the output of path_tree and of path_content does not depend on the
\* order the directory listings come in, also when two siblings differ by
\* letter case only.
C3_OrderIndependent ==
    (Done /\ outcome = "returned") =>
        \A scan \in ScanOrders :
            /\ op = "path_tree" => lines = << PathStr(root) >> \o rec(root, <<>>, scan).lines
            /\ (op = "path_content" /\ is_dir(root)) =>
                   blocks = WalkLoop(<<root>>, [exc |-> "", listed |-> <<>>, blocks |-> <<>>],
                                     scan, root).blocks

\* a block with the header h and the body body
HasBlock(h, body) ==
    \E i \in DOMAIN blocks : root \o HeaderOf(blocks[i]) = h /\ BodyOf(blocks[i]) = body

TextOf(p) == read_text(fs[resolve(p)].data)

\* C4: with errors="skip", whatever skip_binary is, path_content does not
\* raise because a selected file cannot be read or decoded: it returns, and
\* every other selected file has its block.  Stated where nothing else can
\* fail: a directory root and no symbolic link.
C4_SkipNeverRaises ==
    (ContentDone /\ errors = "skip" /\ is_dir(root) /\ NoLinks) =>
        /\ outcome = "returned"
        /\ \A p \in Below(root) : (Kept(p) /\ PlainFile(p)) => HasBlock(p, TextOf(p))

\* the kept symlinks to a directory, and the lines they are drawn on
SymlinkDir(p) == is_symlink(p) /\ is_dir(p)

LinkLines == { i \in 2 .. Len(lines) : SymlinkDir(LinePath(i)) }

\* below the link l the predicate says of every path what it says of the
\* same path below the link's target
SameVerdicts(l) ==
    \A p \in Reach(l) :
        include(p) <=> include(resolve(l) \o SubSeq(p, Len(l) + 1, Len(p)))

\* no path below l runs into a loop of symbolic links
NoLoopBelow(l) == \A p \in Reach(l) : Stat(p).err # "ELOOP"

C5_OwnLine == \A p \in Below(root) : (Kept(p) /\ SymlinkDir(p)) => p \in Shown

C5_NothingBeneath == ~follow_symlinks => \A i \in LinkLines : Beneath(i) = <<>>

C5_AsTarget(i) ==
    \E scan \in ScanOrders : Beneath(i) = rec(resolve(LinePath(i)), <<>>, scan).lines

\* C5: in path_tree's output a kept symlink to a directory has a line of its
\* own; with follow_symlinks=False there is no line beneath it; with
\* follow_symlinks=True the lines beneath it are the lines beneath its target
\* under the same predicate, provided that the predicate gives the paths
\* below the link the verdicts of the paths below the target and that no
\* path below the link runs into a loop of symbolic links.
C5_SymlinkDirPolicy ==
    TreeDone =>
        /\ C5_OwnLine
        /\ C5_NothingBeneath
        /\ follow_symlinks =>
              \A i \in LinkLines :
                  (SameVerdicts(LinePath(i)) /\ NoLoopBelow(LinePath(i))) => C5_AsTarget(i)

\* a followed link to a directory with an entry in it
C5_Witness ==
    /\ TreeDone
    /\ follow_symlinks
    /\ \E i \in LinkLines :
          /\ SameVerdicts(LinePath(i))
          /\ NoLoopBelow(LinePath(i))
          /\ Len(Beneath(i)) >= 1

\* C5 as the specification words it: with follow_symlinks=True the lines
\* beneath the link are the lines beneath its target, whatever the predicate
\* and the links below.
C5_AsWorded ==
    TreeDone =>
        /\ C5_OwnLine
        /\ C5_NothingBeneath
        /\ follow_symlinks => \A i \in LinkLines : C5_AsTarget(i)

\* C6: for a link l to a directory t, both kept under the root, and every
\* text file f of t, path_content with follow_symlinks=True has a block
\* headed t/f and a block headed l/f with the same body, and with
\* follow_symlinks=False the block headed t/f only.
C6_BlockPerPath ==
    (ContentDone /\ outcome = "returned" /\ is_dir(root) /\ rejected = {}) =>
        \A l \in Below(root) :
            (SymlinkDir(l) /\ resolve(l) \in Below(root) /\ ~IsPrefix(resolve(l), l)) =>
                \A n \in ChildNames(resolve(l)) :
                    LET tf == Append(resolve(l), n)
                        lf == Append(l, n)
                    IN PlainFile(tf) =>
                          /\ HasBlock(tf, TextOf(tf))
                          /\ follow_symlinks => HasBlock(lf, TextOf(tf))
                          /\ ~follow_symlinks => lf \notin Headers

\* C7: path_content with its default parameters on a directory root holding
\* a text file and a symlink to it returns one block for the file and one
\* block headed by the link's path, with the file's text.
C7_LinkToFileIsAFile ==
    (/\ ContentDone /\ is_dir(root)
     /\ ~follow_symlinks /\ rejected = {} /\ skip_binary /\ errors = "raise") =>
        \A l \in Below(root) :
            (/\ Parent(l) = root /\ is_symlink(l) /\ PlainFile(l)
             /\ Parent(resolve(l)) = root) =>
                /\ outcome = "returned"
                /\ HasBlock(resolve(l), TextOf(l))
                /\ HasBlock(l, TextOf(l))

\* the directories the walk comes to and cannot list
FailedListings ==
    { d \in Reach(root) : (d = root \/ (Kept(d) /\ Descended(d))) /\ is_dir(d) /\ ~CanList(d) }

\* every file the walk comes to is a readable text file
OnlyPlainFiles == \A p \in Below(root) : (Kept(p) /\ ~is_dir(p)) => PlainFile(p)

\* C8: a directory whose listing fails does not fail the walk.  path_tree
\* returns, the directory has a line and no line beneath it, and the lines are
\* those of the kept paths, the directory counting as empty.  path_content
\* returns with the block of every file it is left with, when nothing but the
\* listing can fail (no symbolic link, readable text files only).
C8_FailedListing ==
    (Done /\ is_dir(root) /\ FailedListings # {}) =>
        /\ op = "path_tree" =>
              /\ outcome = "returned"
              /\ \A i \in 2 .. Len(lines) :
                     LinePath(i) \in FailedListings => Beneath(i) = <<>>
              /\ \A d \in FailedListings : d # root => d \in Shown
              /\ Shown = { p \in Below(root) : Kept(p) }
              /\ Len(lines) = 1 + Cardinality(Shown)
        /\ (op = "path_content" /\ NoLinks /\ OnlyPlainFiles) =>
              /\ outcome = "returned"
              /\ Headers = { p \in Below(root) : Kept(p) /\ is_file(p) }
              /\ Len(blocks) = Cardinality(Headers)
              /\ \A p \in Headers : HasBlock(p, TextOf(p))

\* path_tree over a directory that cannot be listed, with an entry in it,
\* next to another entry
C8_Witness ==
    /\ TreeDone
    /\ \E d \in FailedListings :
          /\ d # root
          /\ RealChildren(resolve(d)) # {}
          /\ \E p \in Shown : ~IsPrefix(d, p)

\* C9: when the root is neither a regular file nor a directory, path_tree and
\* path_content end in an error and return no string.
C9_InvalidRootSurfaced ==
    (Done /\ ~is_file(root) /\ ~is_dir(root)) => outcome # "returned"

\* C10: the predicate is not applied to the root.  With a predicate that
\* rejects the root, path_tree has the root line and the accepted children of
\* the root, and on a root that is a readable text file the result is the one
\* entry: one line from path_tree, the block of the file from path_content.
C10_RootNotFiltered ==
    (Done /\ root \in rejected) =>
        /\ op = "path_tree" =>
              /\ outcome = "returned"
              /\ lines[1] = PathStr(root)
              /\ \A n \in ChildNames(root) :
                     include(Append(root, n)) => Append(root, n) \in Shown
              /\ is_file(root) => Len(lines) = 1
        /\ (op = "path_content" /\ PlainFile(root) /\ ~is_symlink(arg)) =>
              /\ outcome = "returned"
              /\ Len(blocks) = 1
              /\ BodyOf(blocks[1]) = TextOf(root)

\* C11: when the predicate rejects every path below a directory root,
\* path_tree returns the root line alone and path_content returns the empty
\* string; neither raises.
C11_ExcludeEverything ==
    (Done /\ is_dir(root) /\ Below(root) \subseteq rejected) =>
        /\ outcome = "returned"
        /\ op = "path_tree" => (lines = << PathStr(root) >> /\ result = PathStr(root))
        /\ op = "path_content" => (blocks = <<>> /\ result = <<>>)

\* path_tree on a root with a directory and an entry in it, all rejected
C11_Witness ==
    /\ TreeDone
    /\ is_dir(root)
    /\ Below(root) \subseteq rejected
    /\ \E p \in Below(root) : Len(p) = Len(root) + 2

\* the line is the last one hanging from its parent line
LastChild(i) == \A j \in i + 1 .. Len(lines) : ParentLine(j) # ParentLine(i)

\* the line, among line i and the lines it hangs from, drawn at depth dpt
RECURSIVE AncLine(_, _)
AncLine(i, dpt) == IF DepthOf(i) = dpt THEN i ELSE AncLine(ParentLine(i), dpt)

\* C12: after the root line path_tree has one line per kept entry, in
\* depth-first pre-order.  A line is prefix + connector + name: the connector
\* is the elbow iff the entry is the last kept child of its parent, and the
\* prefix has, for each ancestor below the root from the outermost on, four
\* spaces if that ancestor was the last kept child of its parent and the bar
\* otherwise.
C12_RenderingShape ==
    TreeDone =>
        /\ lines[1] = PathStr(root)
        /\ \A i \in 2 .. Len(lines) : Len(lines[i]) >= 2 /\ DepthOf(i) <= DepthOf(i - 1) + 1
        /\ Shown = { p \in Below(root) : Kept(p) }
        /\ Len(lines) = 1 + Cardinality(Shown)
        /\ \A i \in 2 .. Len(lines) :
              /\ lines[i][Len(lines[i]) - 1] = IF LastChild(i) THEN ElbowBranch ELSE TeeBranch
              /\ \A k \in 1 .. DepthOf(i) :
                     lines[i][k] = IF LastChild(AncLine(i, k - 1)) THEN BlankExt ELSE BarExt

\* a directory with an entry in it, a sibling after the directory, and a
\* rejected sibling that would have been the last
C12_Witness ==
    /\ TreeDone
    /\ \E i \in 2 .. Len(lines) :
          /\ DepthOf(i) = 1
          /\ lines[i] = << BarExt, ElbowBranch, NameOf(i) >>
    /\ \E n \in ChildNames(root) :
          /\ Append(root, n) \in rejected
          /\ \A i \in 2 .. Len(lines) : DepthOf(i) = 0 => Ord(casefold(NameOf(i))) < Ord(casefold(n))

\* ---------------------------------------------------------------------------
\* Reading a block back
\* ---------------------------------------------------------------------------

\* the characters of a token of a block
Spell(t) ==
    CASE t = FileHeader -> << "=", "=", "=", "=", "=", " ", "F", "I", "L", "E", ":", " " >>
      [] t = HeaderEnd -> << " ", "=", "=", "=", "=", "=" >>
      [] t = EndFile -> [i \in DOMAIN EndFileBytes |-> Chr(EndFileBytes[i])]
      [] OTHER -> << t >>

\* the block as the string of its characters
RECURSIVE Flat(_)
Flat(s) == IF s = <<>> THEN <<>> ELSE Spell(s[1]) \o Flat(Tail(s))

\* str.splitlines(): cur is the line being read, acc the lines read so far
RECURSIVE splitlines(_, _, _)
splitlines(cs, cur, acc) ==
    IF cs = <<>> THEN (IF cur = <<>> THEN acc ELSE Append(acc, cur))
    ELSE IF cs[1] = "\r" /\ Len(cs) >= 2 /\ cs[2] = "\n"
         THEN splitlines(SubSeq(cs, 3, Len(cs)), <<>>, Append(acc, cur))
    ELSE IF cs[1] \in {"\n", "\r"} THEN splitlines(Tail(cs), <<>>, Append(acc, cur))
    ELSE splitlines(Tail(cs), Append(cur, cs[1]), acc)

\* "\n".join(ls)
RECURSIVE JoinLines(_)
JoinLines(ls) ==
    IF ls = <<>> THEN <<>>
    ELSE IF Len(ls) = 1 THEN ls[1]
    ELSE ls[1] \o << "\n" >> \o JoinLines(Tail(ls))

\* the lines after the header line, up to the first line that is the terminator
BodyLines(ls) ==
    LET ends == { k \in 2 .. Len(ls) : ls[k] = Spell(EndFile) }
    IN IF ends = {} THEN SubSeq(ls, 2, Len(ls))
       ELSE SubSeq(ls, 2, (CHOOSE k \in ends : \A m \in ends : k <= m) - 1)

\* parsing one block of the delimiter format: the content read back
extract_block(b) == JoinLines(BodyLines(splitlines(Flat(b), <<>>, <<>>)))

\* the text a file holds: its bytes decoded, nothing translated
Original(data) == LET c == utf8(data) IN [i \in DOMAIN c |-> Chr(c[i])]

\* C13: parsing a block that path_content produced (every block is made by
\* file_to_text) gives back exactly the text of the file the block is for
C13_RoundTrip ==
    (ContentDone /\ NoLinks) =>
        \A i \in DOMAIN blocks :
            extract_block(blocks[i]) = Original(fs[root \o HeaderOf(blocks[i])].data)

\* the paths that the exclude pattern "/n" matches: the entry named n directly
\* under the walk root, and nothing deeper
RootAnchored(n) == { Append(root, n) }

C15_ListedOnlyIfIncluded ==
    Done =>
        /\ (is_dir(root) /\ outcome # "ValueError") => (listed # <<>> /\ listed[1] = root)
        /\ \A i \in DOMAIN listed :
               /\ IsPrefix(root, listed[i])
               /\ \A k \in Len(root) + 1 .. Len(listed[i]) :
                      /\ SubSeq(listed[i], 1, k) \notin rejected
                      /\ is_dir(SubSeq(listed[i], 1, k))
                      /\ ~follow_symlinks => ~is_symlink(SubSeq(listed[i], 1, k))

\* path_content lists the root and an accepted directory of it, and leaves
\* alone a rejected directory that has an entry inside
C15_Witness ==
    /\ ContentDone
    /\ Len(listed) >= 2
    /\ \E d \in rejected :
           /\ Parent(d) = root
           /\ is_dir(d)
           /\ ChildNames(d) # {}
           /\ \A i \in DOMAIN listed : ~IsPrefix(d, listed[i])

\* the path that line i of the lines ls of rec(root, ...) draws
RECURSIVE PathIn(_, _)
PathIn(ls, i) ==
    IF Len(ls[i]) = 2 THEN Append(root, Last(ls[i]))
    ELSE Append(PathIn(ls, CHOOSE j \in 1 .. i - 1 :
                               /\ Len(ls[j]) = Len(ls[i]) - 1
                               /\ \A k \in j + 1 .. i - 1 : Len(ls[k]) >= Len(ls[i])),
                Last(ls[i]))

\* the paths of the tree that path_tree draws for the listings scan, in order
TreeOrder(scan) ==
    [i \in DOMAIN rec(root, <<>>, scan).lines |-> PathIn(rec(root, <<>>, scan).lines, i)]

\* the files of the blocks are met in the order of the sequence paths
InOrder(paths) ==
    \A i, j \in DOMAIN blocks :
        i < j => \E m, n \in DOMAIN paths :
                     /\ m < n
                     /\ paths[m] = root \o HeaderOf(blocks[i])
                     /\ paths[n] = root \o HeaderOf(blocks[j])

\* C16: the blocks of path_content come in the order in which path_tree, for
\* the same root, flag and predicate, draws the lines of their files: the
\* files inside a subdirectory before the directory's own files
C16_SameOrderAsTree ==
    (ContentDone /\ NoLinks /\ is_dir(root) /\ outcome = "returned") =>
        \E scan \in ScanOrders : InOrder(TreeOrder(scan))

\* the bytes that the detection looks at
Sampled(data) == SubSeq(data, 1, Min(sample_size, Len(data)))

\* a NUL byte among the sampled bytes, or strictly more than 30% of them
\* outside the text set
LooksBinary(data) ==
    \/ \E i \in DOMAIN Sampled(data) : Sampled(data)[i] = 0
    \/ /\ Sampled(data) # <<>>
       /\ 100 * Cardinality({ i \in DOMAIN Sampled(data) :
                                 Sampled(data)[i] \notin {7, 8, 9, 10, 12, 13, 27} \cup (32 .. 126) })
              > 30 * Len(Sampled(data))

\* the regular files that a walk from the root hands to safe_add_file
Offered == { p \in Reach(root) : is_file(p) /\ include(p) /\ Kept(p) }

AllReadable == \A q \in Entries : fs[q].mode

\* C17: binary detection.  is_binary_file is true exactly for a file with a
\* NUL byte in its sample or with more than 30% of the sample outside the
\* text set, and false for the empty file; with skip_binary a file found
\* binary gets no block and raises nothing, so that a run over files that
\* are binary or decodable returns the blocks of exactly the other files
C17_BinaryDetection ==
    (ContentDone /\ skip_binary /\ NoLinks /\ AllReadable /\ root \in DOMAIN fs) =>
        /\ \A p \in Offered :
               /\ is_binary_file(p) = Return(LooksBinary(fs[p].data))
               /\ fs[p].data = <<>> => ~is_binary_file(p).val
               /\ LooksBinary(fs[p].data) => p \notin Headers
        /\ (\A p \in Offered : LooksBinary(fs[p].data) \/ utf8(fs[p].data) # <<-1>>) =>
               /\ outcome = "returned"
               /\ Headers = { p \in Offered : ~LooksBinary(fs[p].data) }

\* with errors="raise", a run returns the block of a text file and none for
\* a file without a NUL byte that has one byte in three outside the text set
C17_Witness ==
    /\ ContentDone
    /\ skip_binary
    /\ errors = "raise"
    /\ outcome = "returned"
    /\ \E p, q \in Offered :
           /\ fs[p].data = << 1, 104, 105 >>
           /\ p \notin Headers
           /\ fs[q].data = PlainText
           /\ q \in Headers

\* the number of symlinks among the components of p below the root
LinkCount(p) ==
    Cardinality({ k \in Len(root) + 1 .. Len(p) : is_symlink(SubSeq(p, 1, k)) })

\* no path is listed twice, and a listed path goes through no more symlinks
\* than the kernel follows in one resolution
FiniteListings ==
    /\ \A i, j \in DOMAIN listed : listed[i] = listed[j] => i = j
    /\ \A i \in DOMAIN listed : LinkCount(listed[i]) <= SymLoopMax

====
